---- MODULE Spec2Model ----
(***************************************************************************)
(* Model of the card session layer of sysmo-usim-tool's GUI:               *)
(*   managers/card_manager.py  (CardManager)                               *)
(*   utils/card_detector.py    (CardDetector, CardType)                    *)
(* The card driver (Sysmo_isim_sja2 / Sysmo_isim_sja5 / Sysmo_usim_sjs1    *)
(* and its Simcard) is the environment: every driver call may return or    *)
(* raise, and the calls a handler issues are recorded in `calls`.          *)
(* Spec is the session (detect, authenticate, program, read, verify);      *)
(* EncSpec applies the IMSI / ICCID / PLMN encoders and decoders to digit  *)
(* strings; DetSpec applies the ATR matcher and create_card_object to      *)
(* ATRs; BatchSpec is the batch loop of gui_main.py (SysmoUSIMToolGUI:     *)
(* _start_batch, _program_next_card, _stop_batch, _finish_batch) driving   *)
(* the session once per CSV row.                                           *)
(***************************************************************************)
EXTENDS Integers, Sequences, FiniteSets, TLC

\* ------------------------------------------------------------------ bounds
\* number of keys of the field map passed to program_card
MaxPresent == 2
\* number of driver faults injected into one program_card call
MaxFaults == 1
\* length up to which all digit strings are given to the encoders
MaxDigits == 3
\* number of rows of the CSV a batch runs over
MaxRows == 2
\* value up to which batch_failed_count is followed
MaxFailed == 2
\* number of root.after callbacks that can be pending at once
MaxAfter == 2

\* ------------------------------------------------------- program constants
\* ADM1 retry counter of a fresh card
MaxRetry == 3

\* ------------------------------------------------------------- CardType
CardType == {"UNKNOWN", "SJA2", "SJA5", "SJS1"}

Families == {"SJA5", "SJA2", "SJS1"}

\* self.card = None
NoCard == [id |-> 0, family |-> "UNKNOWN"]

\* Object identities are compared within one call only: Held names the driver
\* object the session holds when a handler is entered, Built the object the
\* detector constructs during the call.
Held == 1
Built == 2

\* self.atr = None
NoAtr == 0

\* a driver object built by one of the three constructors
Driver(n, f) == [id |-> n, family |-> f]

VARIABLES
    card,           \* CardManager.card: the driver handle or NoCard
    card_type,      \* CardManager.card_type
    authenticated,  \* CardManager.authenticated
    atr,            \* CardManager.atr: NoAtr or the id of the card it was read from
    locked,         \* authenticate has answered Locked for the current session
    pc,             \* "idle": no call in progress; "returned": a handler has just returned
    lastOp,         \* the handler that returned last
    pre,            \* the session as it was when that handler was entered
    args,           \* the inputs of that handler (field map, driver faults)
    calls,          \* the driver calls that handler issued, in order
    result,         \* what that handler returned
    programming_in_progress,    \* SysmoUSIMToolGUI.programming_in_progress
    current_card_index,         \* SysmoUSIMToolGUI.current_card_index
    batch_success_count,        \* SysmoUSIMToolGUI.batch_success_count
    batch_failed_count,         \* SysmoUSIMToolGUI.batch_failed_count
    batch_skipped_count,        \* SysmoUSIMToolGUI.batch_skipped_count
    running,        \* ProgressPanel.set_running: Stop is enabled, Start disabled
    after,          \* number of _program_next_card callbacks root.after holds
    card_count      \* csv_manager.get_card_count()

\* the state of the main window
guiVars == <<programming_in_progress, current_card_index, batch_success_count,
             batch_failed_count, batch_skipped_count, running, after, card_count>>

vars == <<card, card_type, authenticated, atr, locked,
          pc, lastOp, pre, args, calls, result, guiVars>>

gui == [programming_in_progress |-> programming_in_progress,
        current_card_index |-> current_card_index,
        batch_success_count |-> batch_success_count,
        batch_failed_count |-> batch_failed_count,
        batch_skipped_count |-> batch_skipped_count,
        running |-> running, after |-> after]

\* SysmoUSIMToolGUI.__init__: no batch, nothing scheduled
GuiInit ==
    /\ programming_in_progress = FALSE
    /\ current_card_index = 0
    /\ batch_success_count = 0
    /\ batch_failed_count = 0
    /\ batch_skipped_count = 0
    /\ running = FALSE
    /\ after = 0

session == [card |-> card, card_type |-> card_type,
            authenticated |-> authenticated, atr |-> atr]

\* CardManager.__init__ / CardManager.disconnect
EmptySession == [card |-> NoCard, card_type |-> "UNKNOWN",
                 authenticated |-> FALSE, atr |-> NoAtr]

NoArgs == [kind |-> "none"]
\* a returned value: ok is the boolean of the returned tuple, kind the message
\* class, remaining the retry count a Failed answer reports, err the exception
\* a "Programming error" message carries, data the dictionary read_card_data
\* returns, mismatches the list verify_card returns
NoData == [some |-> FALSE, imsi |-> "None", iccid |-> "None", mnc_length |-> "None"]
Res(ok, kind) == [ok |-> ok, kind |-> kind, remaining |-> -1, err |-> "",
                  data |-> NoData, mismatches |-> <<>>]
NoResult == Res(FALSE, "none")

\* ------------------------------------------------------ run of a handler
\* A run threads the driver calls issued so far and the pending exception
\* ("" when none) through the statements of a handler.
Run0 == [calls |-> <<>>, exc |-> ""]

\* a driver call at call site `site`; it raises when the site is faulty
Do(r, site, faults) ==
    IF r.exc # "" THEN r
    ELSE [calls |-> Append(r.calls, site),
          exc |-> IF site \in faults THEN site ELSE ""]

\* a statement of the handler itself that raises when `cond` holds
RaiseIf(r, cond, what) ==
    IF r.exc = "" /\ cond THEN [r EXCEPT !.exc = what] ELSE r

\* except Exception: (the handler continues after the try block)
Catch(r) == [r EXCEPT !.exc = ""]

\* ----------------------------------------------------------- card_detector
\* CardDetector.SJA2_ATR_PREFIX .. SJS1_ATR (bytes in decimal)
SJA2_ATR_PREFIX == <<59, 159, 150, 128, 31, 135, 128, 49, 224, 115,
                     254, 33, 27, 103, 74, 76>>
SJA5_ATR_9FV == <<59, 159, 150, 128, 31, 135, 128, 49, 224, 115,
                  254, 33, 27, 103, 74, 53, 117, 48, 53>>
SJA5_ATR_SLM17 == <<59, 159, 150, 128, 31, 135, 128, 49, 224, 115,
                    254, 33, 27, 103, 74, 53, 117, 48, 52>>
SJA5_ATR_3FJ == <<59, 159, 150, 128, 31, 199, 128, 49, 224, 115,
                  254, 33, 27, 100, 16, 56, 10, 0, 116>>
SJS1_ATR == <<59, 159, 150, 128, 31, 135, 128, 49, 224, 115,
              254, 33, 27, 103, 74, 53, 117, 48, 49>>

\* CardDetector._atr_matches
_atr_matches(a, pattern, length) ==
    IF Len(a) < length THEN FALSE
    ELSE SubSeq(a, 1, length) = SubSeq(pattern, 1, length)

detect_card_type_short_match(a) ==
    IF Len(a) < 16 THEN "UNKNOWN"
    ELSE IF _atr_matches(a, SJA5_ATR_9FV, 16) THEN "SJA5"
    ELSE IF _atr_matches(a, SJA5_ATR_SLM17, 16) THEN "SJA5"
    ELSE IF _atr_matches(a, SJA5_ATR_3FJ, 16) THEN "SJA5"
    ELSE IF _atr_matches(a, SJS1_ATR, 16) THEN "SJS1"
    ELSE IF _atr_matches(a, SJA2_ATR_PREFIX, 16) THEN "SJA2"
    ELSE "UNKNOWN"

\* CardDetector.detect_card_type
detect_card_type(a) ==
    IF Len(a) < 16 THEN "UNKNOWN"
    ELSE IF _atr_matches(a, SJA5_ATR_9FV, 19) THEN "SJA5"
    ELSE IF _atr_matches(a, SJA5_ATR_SLM17, 19) THEN "SJA5"
    ELSE IF _atr_matches(a, SJA5_ATR_3FJ, 19) THEN "SJA5"
    ELSE IF _atr_matches(a, SJS1_ATR, 19) THEN "SJS1"
    ELSE IF _atr_matches(a, SJA2_ATR_PREFIX, 16) THEN "SJA2"
    ELSE "UNKNOWN"

\* the atr argument of create_card_object: a byte list, or None
Atr(b) == [some |-> TRUE, bytes |-> b]
AtrNone == [some |-> FALSE, bytes |-> <<>>]

create_card_object_half_built(a, ctorOk, n) ==
    IF ~a.some
    THEN IF "SJA5" \in ctorOk THEN <<"SJA5", Driver(n, "SJA5"), <<"SJA5">>>>
         ELSE IF "SJA2" \in ctorOk
         THEN <<"SJA2", Driver(n, "SJA2"), <<"SJA5", "SJA2">>>>
         ELSE IF "SJS1" \in ctorOk
         THEN <<"SJS1", Driver(n, "SJS1"), <<"SJA5", "SJA2", "SJS1">>>>
         ELSE <<"UNKNOWN", NoCard, <<"SJA5", "SJA2", "SJS1">>>>
    ELSE LET t == detect_card_type(a.bytes)
         IN  IF t = "UNKNOWN" THEN <<"UNKNOWN", NoCard, <<>>>>
             ELSE IF t \in ctorOk THEN <<t, Driver(n, t), <<t>>>>
             ELSE <<t, NoCard, <<t>>>>

\* CardDetector.create_card_object(atr): `ctorOk` is the set of families
\* whose constructor accepts the inserted card (the others raise), n the
\* identity of the object built.  The value is <<card_type, card, the
\* constructors called in order>>.
create_card_object(a, ctorOk, n) ==
    IF ~a.some
    THEN IF "SJA5" \in ctorOk THEN <<"SJA5", Driver(n, "SJA5"), <<"SJA5">>>>
         ELSE IF "SJA2" \in ctorOk
         THEN <<"SJA2", Driver(n, "SJA2"), <<"SJA5", "SJA2">>>>
         ELSE IF "SJS1" \in ctorOk
         THEN <<"SJS1", Driver(n, "SJS1"), <<"SJA5", "SJA2", "SJS1">>>>
         ELSE <<"UNKNOWN", NoCard, <<"SJA5", "SJA2", "SJS1">>>>
    ELSE LET t == detect_card_type(a.bytes)
         IN  IF t = "UNKNOWN" THEN <<"UNKNOWN", NoCard, <<>>>>
             ELSE IF t \in ctorOk THEN <<t, Driver(n, t), <<t>>>>
             ELSE <<"UNKNOWN", NoCard, <<t>>>>

\* ------------------------------------------------------------ card_manager
disconnect_keeps_authenticated(s) ==
    [card |-> NoCard, card_type |-> "UNKNOWN",
     authenticated |-> s.authenticated, atr |-> NoAtr]

\* CardManager.disconnect, as a function of the session
disconnect(s) == EmptySession

detect_card_keeps_state(s, ctorOk, detectorRaises, atrOk, n) ==
    LET s0 == s
        co == create_card_object(AtrNone, ctorOk, n)
    IN  IF detectorRaises
        THEN [s |-> [s0 EXCEPT !.card = NoCard, !.card_type = "UNKNOWN"],
              calls |-> <<>>, result |-> Res(FALSE, "Error")]
        ELSE IF co[1] = "UNKNOWN" \/ co[2] = NoCard
        THEN [s |-> [s0 EXCEPT !.card_type = co[1], !.card = co[2]],
              calls |-> <<>>, result |-> Res(FALSE, "NoCardDetected")]
        ELSE [s |-> [s0 EXCEPT !.card_type = co[1], !.card = co[2],
                               !.atr = IF atrOk THEN n ELSE NoAtr],
              calls |-> <<"get_ATR">>, result |-> Res(TRUE, "Detected")]

\* CardManager.detect_card; n is the identity of the driver object that the
\* detector builds, detectorRaises the case of the detector itself raising
detect_card(s, ctorOk, detectorRaises, atrOk, n) ==
    LET s0 == disconnect(s)
        co == create_card_object(AtrNone, ctorOk, n)
    IN  IF detectorRaises
        THEN [s |-> [s0 EXCEPT !.card = NoCard, !.card_type = "UNKNOWN"],
              calls |-> <<>>, result |-> Res(FALSE, "Error")]
        ELSE IF co[1] = "UNKNOWN" \/ co[2] = NoCard
        THEN [s |-> [s0 EXCEPT !.card_type = co[1], !.card = co[2]],
              calls |-> <<>>, result |-> Res(FALSE, "NoCardDetected")]
        ELSE [s |-> [s0 EXCEPT !.card_type = co[1], !.card = co[2],
                               !.atr = IF atrOk THEN n ELSE NoAtr],
              calls |-> <<"get_ATR">>, result |-> Res(TRUE, "Detected")]

authenticate_no_lock_check(s, adm1Bad, auth, retrys) ==
    IF s.card = NoCard
    THEN [s |-> s, calls |-> <<>>, result |-> Res(FALSE, "NoCard")]
    ELSE IF adm1Bad
    THEN [s |-> s, calls |-> <<>>, result |-> Res(FALSE, "Error")]
    ELSE IF auth = "raise"
    THEN [s |-> s, calls |-> <<"admin_auth">>, result |-> Res(FALSE, "Error")]
    ELSE IF auth = "true"
    THEN [s |-> [s EXCEPT !.authenticated = TRUE],
          calls |-> <<"admin_auth">>, result |-> Res(TRUE, "Success")]
    ELSE IF retrys = -1
    THEN [s |-> s, calls |-> <<"admin_auth", "chv_retrys">>,
          result |-> Res(FALSE, "GenericFailure")]
    ELSE [s |-> s, calls |-> <<"admin_auth", "chv_retrys">>,
          result |-> [Res(FALSE, "Failed") EXCEPT !.remaining = retrys]]

authenticate_retries_once(s, adm1Bad, auth, retrys) ==
    IF s.card = NoCard
    THEN [s |-> s, calls |-> <<>>, result |-> Res(FALSE, "NoCard")]
    ELSE IF adm1Bad
    THEN [s |-> s, calls |-> <<>>, result |-> Res(FALSE, "Error")]
    ELSE IF auth = "raise"
    THEN [s |-> s, calls |-> <<"admin_auth", "admin_auth">>,
          result |-> Res(FALSE, "Error")]
    ELSE IF auth = "true"
    THEN [s |-> [s EXCEPT !.authenticated = TRUE],
          calls |-> <<"admin_auth">>, result |-> Res(TRUE, "Success")]
    ELSE IF retrys = -1
    THEN [s |-> s, calls |-> <<"admin_auth", "admin_auth", "chv_retrys">>,
          result |-> Res(FALSE, "GenericFailure")]
    ELSE IF retrys = 0
    THEN [s |-> s, calls |-> <<"admin_auth", "admin_auth", "chv_retrys">>,
          result |-> Res(FALSE, "Locked")]
    ELSE [s |-> s, calls |-> <<"admin_auth", "admin_auth", "chv_retrys">>,
          result |-> [Res(FALSE, "Failed") EXCEPT !.remaining = retrys]]

authenticate_clears_on_failure(s, adm1Bad, auth, retrys) ==
    LET s0 == [s EXCEPT !.authenticated = FALSE]
    IN  IF s.card = NoCard
        THEN [s |-> s, calls |-> <<>>, result |-> Res(FALSE, "NoCard")]
        ELSE IF adm1Bad
        THEN [s |-> s0, calls |-> <<>>, result |-> Res(FALSE, "Error")]
        ELSE IF auth = "raise"
        THEN [s |-> s0, calls |-> <<"admin_auth">>, result |-> Res(FALSE, "Error")]
        ELSE IF auth = "true"
        THEN [s |-> [s EXCEPT !.authenticated = TRUE],
              calls |-> <<"admin_auth">>, result |-> Res(TRUE, "Success")]
        ELSE IF retrys = -1
        THEN [s |-> s0, calls |-> <<"admin_auth", "chv_retrys">>,
              result |-> Res(FALSE, "GenericFailure")]
        ELSE IF retrys = 0
        THEN [s |-> s0, calls |-> <<"admin_auth", "chv_retrys">>,
              result |-> Res(FALSE, "Locked")]
        ELSE [s |-> s0, calls |-> <<"admin_auth", "chv_retrys">>,
              result |-> [Res(FALSE, "Failed") EXCEPT !.remaining = retrys]]

\* CardManager.authenticate; adm1Bad: ascii_to_list(adm1) raises; auth is the
\* answer of card.admin_auth ("true", "false", "raise"); retrys the answer of
\* card.sim.chv_retrys (-1: the query raises)
authenticate(s, adm1Bad, auth, retrys) ==
    IF s.card = NoCard
    THEN [s |-> s, calls |-> <<>>, result |-> Res(FALSE, "NoCard")]
    ELSE IF adm1Bad
    THEN [s |-> s, calls |-> <<>>, result |-> Res(FALSE, "Error")]
    ELSE IF auth = "raise"
    THEN [s |-> s, calls |-> <<"admin_auth">>, result |-> Res(FALSE, "Error")]
    ELSE IF auth = "true"
    THEN [s |-> [s EXCEPT !.authenticated = TRUE],
          calls |-> <<"admin_auth">>, result |-> Res(TRUE, "Success")]
    ELSE IF retrys = -1
    THEN [s |-> s, calls |-> <<"admin_auth", "chv_retrys">>,
          result |-> Res(FALSE, "GenericFailure")]
    ELSE IF retrys = 0
    THEN [s |-> s, calls |-> <<"admin_auth", "chv_retrys">>,
          result |-> Res(FALSE, "Locked")]
    ELSE [s |-> s, calls |-> <<"admin_auth", "chv_retrys">>,
          result |-> [Res(FALSE, "Failed") EXCEPT !.remaining = retrys]]


\* ---------------------------------------------------------- the field map
\* card_data: Dict[str, str].  A value is abstracted to the class the code
\* distinguishes: "absent" (key not in the map), "empty" (''), "ok" (a value
\* its encoder accepts), "bad" (a value its encoder raises on) and, for
\* HPLMN, "short" (non-empty with fewer than 5 characters); for the Milenage
\* group "ok" is 5 R-bytes and 80 C-bytes, "short" any other byte count.
Fields == {"IMSI", "ICCID", "Ki", "OPc", "ALGO_2G", "ALGO_3G", "ALGO_4G5G",
           "MNC_LENGTH",
           "MILENAGE_R1", "TUAK_RES_SIZE", "HPLMN", "ROUTING_INDICATOR",
           "PROTECTION_SCHEME_ID", "HNET_PUBKEY", "OPLMN_ACT"}

Values == {"empty", "short", "ok", "bad"}

Dom(f) ==
    CASE f \in {"ALGO_2G", "ALGO_3G", "ALGO_4G5G", "TUAK_RES_SIZE"} -> {"empty", "ok"}
      [] f = "HPLMN" -> {"empty", "short", "ok", "bad"}
      [] f = "MILENAGE_R1" -> {"short", "ok", "bad"}
      [] f \in {"ROUTING_INDICATOR", "PROTECTION_SCHEME_ID"} -> {"ok", "bad"}
      [] OTHER -> {"empty", "ok", "bad"}

CardDataSet ==
    UNION { { [f \in Fields |-> IF f \in P THEN v[f] ELSE "absent"] :
              v \in { w \in [P -> Values] : \A f \in P : w[f] \in Dom(f) } } :
            P \in { Q \in SUBSET Fields : Cardinality(Q) <= MaxPresent } }

\* 'F' in card_data
In(cd, f) == cd[f] # "absent"

\* 'F' in card_data and card_data['F']   /   card_data.get('F', '') truthy
NonEmpty(cd, f) == cd[f] \notin {"absent", "empty"}

\* ------------------------------------------------------------ the encoders
\* utils.asciihex_to_list(v) raises: the value is not a hexadecimal string
asciihex_to_list_raises(v) == v = "bad"

\* int(v) raises: the value is not a decimal number
int_raises(v) == v = "bad"

\* _encode_plmn(v) raises: not 5 or 6 characters, or not decimal digits
_encode_plmn_raises(v) == v = "bad"

\* ------------------------------------------------------------- the drivers
\* hasattr(self.card, m) for the driver classes
HasAttr(fam, m) ==
    CASE m = "write_auth_params" -> fam \in {"SJA2", "SJA5", "SJS1"}
      [] m = "write_tuak_cfg" -> fam \in {"SJA2", "SJA5"}
      [] OTHER -> FALSE

\* the driver's write_auth_params has the algo_4g5g_str parameter
Accepts4g5g(fam) == fam \in {"SJA2", "SJA5"}

\* --------------------------------------------------- steps of program_card
StepImsi_swallow(r, cd, faults) ==
    IF NonEmpty(cd, "IMSI")
    THEN IF r.exc # "" THEN r
         ELSE Catch(Do(RaiseIf(r, asciihex_to_list_raises(cd["IMSI"]), "encode:IMSI"), "write_imsi", faults))
    ELSE r

StepImsi(r, cd, faults) ==
    IF NonEmpty(cd, "IMSI")
    THEN Do(RaiseIf(r, asciihex_to_list_raises(cd["IMSI"]), "encode:IMSI"), "write_imsi", faults)
    ELSE r

StepIccid_unguarded(r, cd, faults) ==
    IF NonEmpty(cd, "ICCID")
    THEN Do(RaiseIf(r, asciihex_to_list_raises(cd["ICCID"]), "encode:ICCID"), "write_iccid", faults)
    ELSE r

StepIccid(r, cd, faults) ==
    IF NonEmpty(cd, "ICCID")
    THEN LET r1 == RaiseIf(r, asciihex_to_list_raises(cd["ICCID"]), "encode:ICCID")
         IN  IF r1.exc # "" THEN r1 ELSE Catch(Do(r1, "write_iccid", faults))
    ELSE r

StepKi(r, cd, faults) ==
    IF NonEmpty(cd, "Ki")
    THEN Do(RaiseIf(r, asciihex_to_list_raises(cd["Ki"]), "encode:Ki"), "write_key_params", faults)
    ELSE r

StepOpc(r, cd, faults) ==
    IF NonEmpty(cd, "OPc")
    THEN Do(RaiseIf(r, asciihex_to_list_raises(cd["OPc"]), "encode:OPc"), "write_opc_params", faults)
    ELSE r

\* the algorithm write: the defaults make it unconditional
StepAlgo(r, cd, fam, faults) ==
    IF NonEmpty(cd, "ALGO_4G5G") /\ HasAttr(fam, "write_auth_params")
    THEN RaiseIf(Do(r, "write_auth_params/3", faults),
                 ~Accepts4g5g(fam), "TypeError:write_auth_params")
    ELSE Do(r, "write_auth_params/2", faults)

StepMncLength(r, cd, faults) ==
    IF NonEmpty(cd, "MNC_LENGTH")
    THEN Do(RaiseIf(r, int_raises(cd["MNC_LENGTH"]), "encode:MNC_LENGTH"), "write_mnclen", faults)
    ELSE r

\* CardManager._program_milenage_params
_program_milenage_params(r, cd, faults) ==
    IF r.exc # "" THEN r
    ELSE LET r1 == RaiseIf(r, asciihex_to_list_raises(cd["MILENAGE_R1"]), "encode:MILENAGE")
         IN  Catch(IF cd["MILENAGE_R1"] = "ok"
                   THEN Do(r1, "write_milenage_params", faults)
                   ELSE r1)

StepMilenage(r, cd, faults) ==
    IF In(cd, "MILENAGE_R1") THEN _program_milenage_params(r, cd, faults) ELSE r

\* CardManager._program_tuak_params
_program_tuak_params(r, cd, fam, faults) ==
    IF r.exc # "" THEN r
    ELSE Catch(IF HasAttr(fam, "write_tuak_cfg")
               THEN Do(r, "write_tuak_cfg", faults)
               ELSE r)

StepTuak_any_family(r, cd, s, faults) ==
    IF In(cd, "TUAK_RES_SIZE")
    THEN _program_tuak_params(r, cd, s.card.family, faults)
    ELSE r

StepTuak(r, cd, s, faults) ==
    IF s.card_type = "SJA5" /\ In(cd, "TUAK_RES_SIZE")
    THEN _program_tuak_params(r, cd, s.card.family, faults)
    ELSE r

_program_plmn_one_guard(r, cd, s, faults) ==
    IF r.exc # "" \/ cd["HPLMN"] \in {"absent", "empty", "short"} THEN r
    ELSE IF _encode_plmn_raises(cd["HPLMN"]) THEN Catch(RaiseIf(r, TRUE, "encode:HPLMN"))
    ELSE LET r1 == Do(Do(Do(r, "PLMNsel:select_DF_GSM", faults),
                            "PLMNsel:select_EF", faults),
                         "PLMNsel:update_binary", faults)
             r2 == Catch(Do(Do(Do(r1, "HPLMNwAcT:select_DF_GSM", faults),
                                  "HPLMNwAcT:select_EF", faults),
                               "HPLMNwAcT:update_binary", faults))
         IN  IF s.card_type \in {"SJA2", "SJA5"}
             THEN Catch(Do(r2, "PLMN:select_ADF_USIM", faults))
             ELSE r2

\* CardManager._program_plmn
_program_plmn(r, cd, s, faults) ==
    IF r.exc # "" \/ cd["HPLMN"] \in {"absent", "empty", "short"} THEN r
    ELSE IF _encode_plmn_raises(cd["HPLMN"]) THEN Catch(RaiseIf(r, TRUE, "encode:HPLMN"))
    ELSE LET r1 == Catch(Do(Do(Do(r, "PLMNsel:select_DF_GSM", faults),
                                  "PLMNsel:select_EF", faults),
                               "PLMNsel:update_binary", faults))
             r2 == Catch(Do(Do(Do(r1, "HPLMNwAcT:select_DF_GSM", faults),
                                  "HPLMNwAcT:select_EF", faults),
                               "HPLMNwAcT:update_binary", faults))
         IN  IF s.card_type \in {"SJA2", "SJA5"}
             THEN Catch(Do(r2, "PLMN:select_ADF_USIM", faults))
             ELSE r2

StepPlmn(r, cd, s, faults) ==
    IF NonEmpty(cd, "HPLMN") THEN _program_plmn(r, cd, s, faults) ELSE r

\* CardManager._program_5g_suci; the fault "UST:short_read" is a read_binary
\* answer of fewer than 16 bytes
_program_5g_suci(r, cd, faults) ==
    IF r.exc # "" THEN r
    ELSE IF int_raises(cd["PROTECTION_SCHEME_ID"]) THEN r
    ELSE IF ~NonEmpty(cd, "HNET_PUBKEY") THEN r
    ELSE LET r0 == Do(Do(r, "SUCI:select_ADF_USIM", faults),
                      "SUCI:select_DF_5GS", faults)
         IN  IF r0.exc # "" THEN Catch(r0)
             ELSE LET r1 == Catch(Do(RaiseIf(Do(r0, "SUCI_Calc_Info:select_EF", faults),
                                             asciihex_to_list_raises(cd["HNET_PUBKEY"]), "encode:HNET_PUBKEY"),
                                     "SUCI_Calc_Info:update_binary", faults))
                      r2 == Catch(Do(RaiseIf(Do(r1, "Routing_Indicator:select_EF", faults),
                                             asciihex_to_list_raises(cd["ROUTING_INDICATOR"]),
                                             "encode:ROUTING_INDICATOR"),
                                     "Routing_Indicator:update_binary", faults))
                      r3 == Do(Do(Do(r2, "UST:select_ADF_USIM", faults),
                                  "UST:select_EF", faults),
                               "UST:read_binary", faults)
                  IN  Catch(Do(RaiseIf(r3, "UST:short_read" \in faults, "IndexError:UST"),
                               "UST:update_binary", faults))

StepSuci(r, cd, s, faults) ==
    IF s.card_type = "SJA5" /\ (In(cd, "ROUTING_INDICATOR") \/ In(cd, "HNET_PUBKEY"))
    THEN _program_5g_suci(r, cd, faults)
    ELSE r

\* CardManager._program_access_technology
_program_access_technology(r, cd, faults) ==
    IF r.exc # "" \/ ~NonEmpty(cd, "OPLMN_ACT") THEN r
    ELSE Catch(Do(RaiseIf(Do(Do(r, "OPLMNwAcT:select_DF_GSM", faults),
                             "OPLMNwAcT:select_EF", faults),
                          _encode_plmn_raises(cd["OPLMN_ACT"]), "encode:OPLMN_ACT"),
                  "OPLMNwAcT:update_binary", faults))

StepOplmn(r, cd, faults) ==
    IF NonEmpty(cd, "OPLMN_ACT") THEN _program_access_technology(r, cd, faults) ELSE r

ProgramPlan_mnclen_first(cd, s, faults) ==
    LET fam == s.card.family
        r1 == StepImsi(Run0, cd, faults)
        r2 == StepIccid(r1, cd, faults)
        r3 == StepKi(r2, cd, faults)
        r4 == StepOpc(r3, cd, faults)
        r5 == StepMncLength(r4, cd, faults)
        r6 == StepAlgo(r5, cd, fam, faults)
        r7 == StepMilenage(r6, cd, faults)
        r8 == StepTuak(r7, cd, s, faults)
        r9 == StepPlmn(r8, cd, s, faults)
        r10 == StepSuci(r9, cd, s, faults)
    IN  StepOplmn(r10, cd, faults)

\* the body of the try block of program_card
ProgramPlan(cd, s, faults) ==
    LET fam == s.card.family
        r1 == StepImsi(Run0, cd, faults)
        r2 == StepIccid(r1, cd, faults)
        r3 == StepKi(r2, cd, faults)
        r4 == StepOpc(r3, cd, faults)
        r5 == StepAlgo(r4, cd, fam, faults)
        r6 == StepMncLength(r5, cd, faults)
        r7 == StepMilenage(r6, cd, faults)
        r8 == StepTuak(r7, cd, s, faults)
        r9 == StepPlmn(r8, cd, s, faults)
        r10 == StepSuci(r9, cd, s, faults)
    IN  StepOplmn(r10, cd, faults)

program_card_no_gate(s, cd, faults) ==
    LET r == ProgramPlan(cd, s, faults)
    IN  [s |-> s, calls |-> r.calls,
         result |-> IF r.exc = "" THEN Res(TRUE, "Programmed")
                    ELSE [Res(FALSE, "ProgrammingError") EXCEPT !.err = r.exc]]

\* CardManager.program_card
program_card(s, cd, faults) ==
    IF ~s.authenticated
    THEN [s |-> s, calls |-> <<>>, result |-> Res(FALSE, "NotAuthenticated")]
    ELSE LET r == ProgramPlan(cd, s, faults)
         IN  [s |-> s, calls |-> r.calls,
              result |-> IF r.exc = "" THEN Res(TRUE, "Programmed")
                         ELSE [Res(FALSE, "ProgrammingError") EXCEPT !.err = r.exc]]

Range(q) == {q[i] : i \in 1 .. Len(q)}

\* the faults a driver can show to one program_card call: a raise at a call
\* site the plan reaches, or a short answer to the UST read
FaultSets(s, cd) ==
    LET reach == Range(program_card(s, cd, {}).calls)
        univ == reach \cup (IF "UST:read_binary" \in reach THEN {"UST:short_read"} ELSE {})
    IN  {F \in SUBSET univ : Cardinality(F) <= MaxFaults}


\* ------------------------------------------------- read_card_data, verify
\* values an IMSI / ICCID can have on the card or in the expected map
CardValues == {"", "a", "b"}

ExpectedSet == [IMSI : CardValues \cup {"absent"}, ICCID : CardValues \cup {"absent"}]

ReadSet == [imsi : CardValues, iccid : CardValues]

ReadSites == {"get_imsi", "get_ICCID", "AD:select_DF_GSM", "AD:select_EF",
              "AD:read_binary"}

\* the faults a driver can show to one read-back: a raise at a call site, or
\* an EF_AD answer of fewer than 4 bytes
ReadFaultSets(s) ==
    IF s.authenticated
    THEN {F \in SUBSET (ReadSites \cup {"AD:short_read"}) : Cardinality(F) <= MaxFaults}
    ELSE {{}}

\* CardManager.read_card_data; rd is what the card holds
read_card_data(s, rd, faults) ==
    IF ~s.authenticated
    THEN [s |-> s, calls |-> <<>>, result |-> Res(FALSE, "None")]
    ELSE LET r1 == Catch(Do(Run0, "get_imsi", faults))
             r2 == Catch(Do(r1, "get_ICCID", faults))
             r3 == Do(Do(Do(r2, "AD:select_DF_GSM", faults),
                         "AD:select_EF", faults), "AD:read_binary", faults)
             data == [some |-> TRUE,
                      imsi |-> IF "get_imsi" \in faults THEN "None" ELSE rd.imsi,
                      iccid |-> IF "get_ICCID" \in faults THEN "None" ELSE rd.iccid,
                      mnc_length |-> IF r3.exc # "" THEN "None"
                                     ELSE IF "AD:short_read" \in faults THEN "unset"
                                     ELSE "set"]
         IN  [s |-> s, calls |-> r3.calls,
              result |-> [Res(TRUE, "Data") EXCEPT !.data = data]]

\* current_data.get(k) is truthy
Truthy(v) == v \notin {"None", ""}

verify_card_compares_missing(s, expected, rd, faults) ==
    IF ~s.authenticated
    THEN [s |-> s, calls |-> <<>>,
          result |-> [Res(FALSE, "NotAuthenticated") EXCEPT
                         !.mismatches = <<"Not authenticated">>]]
    ELSE LET rr == read_card_data(s, rd, faults)
             cur == rr.result.data
             m1 == IF expected.IMSI # "absent" /\ cur.imsi # expected.IMSI
                   THEN <<"IMSI">> ELSE <<>>
             m2 == IF expected.ICCID # "absent" /\ cur.iccid # expected.ICCID
                   THEN Append(m1, "ICCID") ELSE m1
         IN  [s |-> s, calls |-> rr.calls,
              result |-> [Res(Len(m2) = 0, "Verified") EXCEPT
                             !.data = cur, !.mismatches = m2]]

\* CardManager.verify_card
verify_card(s, expected, rd, faults) ==
    IF ~s.authenticated
    THEN [s |-> s, calls |-> <<>>,
          result |-> [Res(FALSE, "NotAuthenticated") EXCEPT
                         !.mismatches = <<"Not authenticated">>]]
    ELSE LET rr == read_card_data(s, rd, faults)
             cur == rr.result.data
             m1 == IF expected.IMSI # "absent" /\ Truthy(cur.imsi)
                      /\ cur.imsi # expected.IMSI
                   THEN <<"IMSI">> ELSE <<>>
             m2 == IF expected.ICCID # "absent" /\ Truthy(cur.iccid)
                      /\ cur.iccid # expected.ICCID
                   THEN Append(m1, "ICCID") ELSE m1
         IN  IF ~cur.some
             THEN [s |-> s, calls |-> rr.calls,
                   result |-> [Res(FALSE, "CouldNotRead") EXCEPT
                                  !.mismatches = <<"Could not read card data">>]]
             ELSE [s |-> s, calls |-> rr.calls,
                   result |-> [Res(Len(m2) = 0, "Verified") EXCEPT
                                  !.data = cur, !.mismatches = m2]]

\* ----------------------------------------------------------------- actions
Apply(op, out, a) ==
    /\ card' = out.s.card
    /\ card_type' = out.s.card_type
    /\ authenticated' = out.s.authenticated
    /\ atr' = out.s.atr
    /\ pc' = "returned"
    /\ lastOp' = op
    /\ pre' = session
    /\ args' = a
    /\ calls' = out.calls
    /\ result' = out.result
    /\ UNCHANGED guiVars

DetectCard ==
    /\ pc = "idle"
    /\ \E ctorOk \in SUBSET Families, detectorRaises \in BOOLEAN, atrOk \in BOOLEAN :
         LET out == detect_card(session, ctorOk, detectorRaises, atrOk, Built)
         IN  /\ Apply("detect_card", out,
                      [kind |-> "detect", ctorOk |-> ctorOk,
                       detectorRaises |-> detectorRaises, atrOk |-> atrOk])
             /\ locked' = FALSE

Authenticate ==
    /\ pc = "idle"
    /\ \E adm1Bad \in BOOLEAN, auth \in {"true", "false", "raise"},
          retrys \in -1 .. MaxRetry :
         LET out == authenticate(session, adm1Bad, auth, retrys)
         IN  /\ Apply("authenticate", out,
                      [kind |-> "authenticate", adm1Bad |-> adm1Bad,
                       auth |-> auth, retrys |-> retrys])
             /\ locked' = (locked \/ out.result.kind = "Locked")

ProgramCard ==
    /\ pc = "idle"
    /\ \E cd \in CardDataSet :
         \E faults \in FaultSets(session, cd) :
            /\ Apply("program_card", program_card(session, cd, faults),
                     [kind |-> "program", cd |-> cd, faults |-> faults])
            /\ UNCHANGED locked

ReadCardData ==
    /\ pc = "idle"
    /\ \E rd \in ReadSet :
         \E faults \in ReadFaultSets(session) :
            /\ Apply("read_card_data", read_card_data(session, rd, faults),
                     [kind |-> "read", rd |-> rd, faults |-> faults])
            /\ UNCHANGED locked

VerifyCard ==
    /\ pc = "idle"
    /\ \E expected \in ExpectedSet, rd \in ReadSet :
         \E faults \in ReadFaultSets(session) :
            /\ Apply("verify_card", verify_card(session, expected, rd, faults),
                     [kind |-> "verify", expected |-> expected, rd |-> rd,
                      faults |-> faults])
            /\ UNCHANGED locked

Disconnect ==
    /\ pc = "idle"
    /\ Apply("disconnect", [s |-> disconnect(session), calls |-> <<>>,
                            result |-> Res(TRUE, "Disconnected")],
             [kind |-> "disconnect"])
    /\ locked' = FALSE

\* the caller takes the returned value; the record of the call is dropped and
\* the object the session holds now is the held object of the next call
Return ==
    /\ pc = "returned"
    /\ pc' = "idle"
    /\ lastOp' = "none"
    /\ pre' = EmptySession
    /\ args' = NoArgs
    /\ calls' = <<>>
    /\ result' = NoResult
    /\ card' = IF card = NoCard THEN NoCard ELSE [card EXCEPT !.id = Held]
    /\ atr' = IF atr = NoAtr THEN NoAtr ELSE Held
    /\ UNCHANGED <<card_type, authenticated, locked, guiVars>>

Init ==
    /\ card = NoCard
    /\ card_type = "UNKNOWN"
    /\ authenticated = FALSE
    /\ atr = NoAtr
    /\ locked = FALSE
    /\ pc = "idle"
    /\ lastOp = "none"
    /\ pre = EmptySession
    /\ args = NoArgs
    /\ calls = <<>>
    /\ result = NoResult
    /\ GuiInit /\ card_count = 0

Next ==
    \/ DetectCard
    \/ Authenticate
    \/ ProgramCard
    \/ ReadCardData
    \/ VerifyCard
    \/ Disconnect
    \/ Return

Spec == Init /\ [][Next]_vars

\* ------------------------------------------------- encoders and decoders
\* A digit string is a sequence of digits 0..9, a hex string a sequence of
\* nibbles 0..15 ('9' is 9, 'f' is 15), a byte list a sequence of 0..255.
Digits == 0 .. 9

\* digits of the PLMN strings that are enumerated exhaustively
PlmnDigits == {0, 1, 3, 4}

\* the values the unit tests encode
TestVectors == {
    <<2,4,0,0,1,0,0,0,0,1,6,7,2,7,0>>,
    <<0,0,0,0,0,0,0,0,0,0,0,0,0,0,0>>,
    <<0,0,1,0,1,0,0,0,0,0,0,0,0,0,1>>,
    <<8,9,4,9,4,4,0,0,0,0,0,0,1,6,7,2,7,0,6>>,
    <<8,9,4,9,4,4,0,0,0,0,0,0,1,6,7,2,7,0,6,0>>,
    <<2,4,0,0,1>>,
    <<3,1,0,4,1,0>>,
    <<2,4,0>> }

DigitInputs ==
    UNION {[1 .. n -> Digits] : n \in 1 .. MaxDigits}
      \cup UNION {[1 .. n -> PlmnDigits] : n \in 5 .. 6}
      \cup [1 .. 7 -> {0, 1}]
      \cup TestVectors

\* utils.pad_asciihex(string, front, padding)
pad_asciihex(string, front, padding) ==
    IF Len(string) % 2 # 0
    THEN IF front THEN <<padding>> \o string ELSE Append(string, padding)
    ELSE string

\* utils.asciihex_to_list(string): one byte per pair of hex characters
asciihex_to_list(string) ==
    [i \in 1 .. (Len(string) \div 2) |-> string[2 * i - 1] * 16 + string[2 * i]]

\* ''.join('{:02x}'.format(b) for b in raw)
HexStr(raw) ==
    [i \in 1 .. 2 * Len(raw) |->
        IF i % 2 = 1 THEN raw[(i + 1) \div 2] \div 16 ELSE raw[i \div 2] % 16]

\* a returned str, and a returned None
Str(x) == [none |-> FALSE, s |-> x]
None == [none |-> TRUE, s |-> <<>>]

\* CardManager._encode_imsi
_encode_imsi(imsi) == asciihex_to_list(pad_asciihex(imsi, TRUE, 9))

\* CardManager._decode_imsi
_decode_imsi(imsi_raw) ==
    IF Len(imsi_raw) < 1 THEN None
    ELSE LET hex_str == HexStr(imsi_raw)
         IN  IF Len(hex_str) % 2 = 0 /\ hex_str[1] = 9
             THEN Str(Tail(hex_str))
             ELSE Str(hex_str)

_encode_iccid_pads_front(iccid) == asciihex_to_list(pad_asciihex(iccid, TRUE, 15))

\* CardManager._encode_iccid
_encode_iccid(iccid) == asciihex_to_list(pad_asciihex(iccid, FALSE, 15))

\* str.rstrip('f')
RECURSIVE RStripF(_)
RStripF(h) ==
    IF h # <<>> /\ h[Len(h)] = 15 THEN RStripF(SubSeq(h, 1, Len(h) - 1)) ELSE h

\* CardManager._decode_iccid
_decode_iccid(iccid_raw) ==
    IF iccid_raw = <<>> THEN None ELSE Str(RStripF(HexStr(iccid_raw)))

\* a returned byte list, and a raised ValueError
Bytes(b) == [raised |-> FALSE, bytes |-> b]
ValueError == [raised |-> TRUE, bytes |-> <<>>]

_encode_plmn_truncates(plmn) ==
    IF Len(plmn) = 5
    THEN Bytes(<<plmn[2] * 16 + plmn[1], 240 + plmn[3], plmn[5] * 16 + plmn[4]>>)
    ELSE IF Len(plmn) >= 6
    THEN Bytes(<<plmn[2] * 16 + plmn[1], plmn[6] * 16 + plmn[3],
                 plmn[5] * 16 + plmn[4]>>)
    ELSE ValueError

_encode_plmn_doc_example(plmn) ==
    IF Len(plmn) = 5
    THEN Bytes(<<plmn[2] * 16 + plmn[1], 240 + plmn[3], plmn[5] * 16 + plmn[4]>>)
    ELSE IF Len(plmn) = 6
    THEN Bytes(<<plmn[2] * 16 + plmn[1], plmn[3] * 16 + plmn[4],
                 plmn[6] * 16 + plmn[5]>>)
    ELSE ValueError

\* CardManager._encode_plmn (digits are 0..9, so a << 4 | b is a * 16 + b
\* and 0xF0 | b is 240 + b)
_encode_plmn(plmn) ==
    IF Len(plmn) = 5
    THEN Bytes(<<plmn[2] * 16 + plmn[1], 240 + plmn[3], plmn[5] * 16 + plmn[4]>>)
    ELSE IF Len(plmn) = 6
    THEN Bytes(<<plmn[2] * 16 + plmn[1], plmn[6] * 16 + plmn[3],
                 plmn[5] * 16 + plmn[4]>>)
    ELSE ValueError

\* algorithm names as strings of characters; Absent: the key is not in the map
Absent == <<"-">>
AlgoNames == {
    <<>>,
    <<"M","I","L","E","N","A","G","E">>,
    <<"T","U","A","K">>,
    <<"S","H","A","3","-","T","U","A","K">>,
    <<"T","U","A">>,
    <<"X","O","R">>,
    <<"C","O","M","P","1","2","8","v","1">> }

AlgoMaps == [ALGO_2G : AlgoNames \cup {Absent},
             ALGO_3G : AlgoNames \cup {Absent},
             ALGO_4G5G : AlgoNames \cup {Absent}]

\* card_data.get(k, '')
Get(cd, k) == IF cd[k] = Absent THEN <<>> ELSE cd[k]

\* sub in s
Contains(s, sub) ==
    \E i \in 0 .. Len(s) - Len(sub) : SubSeq(s, i + 1, i + Len(sub)) = sub

_get_access_technology_flags_little_endian(cd) ==
    LET algo_2g == Get(cd, "ALGO_2G")
        algo_3g == Get(cd, "ALGO_3G")
        algo_4g5g == Get(cd, "ALGO_4G5G")
        flags == (IF algo_2g # <<>> THEN 128 ELSE 0)
                 + (IF algo_3g # <<>> THEN 32768 ELSE 0)
                 + (IF algo_4g5g # <<>> THEN 16384 ELSE 0)
                 + (IF algo_4g5g # <<>> /\ Contains(algo_4g5g, <<"T","U","A","K">>)
                    THEN 8192 ELSE 0)
    IN  <<flags % 256, (flags \div 256) % 256>>

\* CardManager._get_access_technology_flags (the masks are distinct bits of a
\* word that starts at 0, so each |= adds its mask)
_get_access_technology_flags(cd) ==
    LET algo_2g == Get(cd, "ALGO_2G")
        algo_3g == Get(cd, "ALGO_3G")
        algo_4g5g == Get(cd, "ALGO_4G5G")
        flags == (IF algo_2g # <<>> THEN 128 ELSE 0)
                 + (IF algo_3g # <<>> THEN 32768 ELSE 0)
                 + (IF algo_4g5g # <<>> THEN 16384 ELSE 0)
                 + (IF algo_4g5g # <<>> /\ Contains(algo_4g5g, <<"T","U","A","K">>)
                    THEN 8192 ELSE 0)
    IN  <<(flags \div 256) % 256, flags % 256>>

\* a call of one of the pure functions: the session is not involved
PureCall(op, out) ==
    /\ pc' = "returned"
    /\ lastOp' = op
    /\ result' = out
    /\ UNCHANGED <<card, card_type, authenticated, atr, locked, pre, args, calls, guiVars>>

EncodeImsi ==
    /\ pc = "idle" /\ args.kind = "digits"
    /\ PureCall("_encode_imsi", Bytes(_encode_imsi(args.s)))

\* the byte list just encoded is decoded again
DecodeImsi ==
    /\ pc = "returned" /\ lastOp = "_encode_imsi"
    /\ PureCall("_decode_imsi", _decode_imsi(result.bytes))

EncodeIccid ==
    /\ pc = "idle" /\ args.kind = "digits"
    /\ PureCall("_encode_iccid", Bytes(_encode_iccid(args.s)))

DecodeIccid ==
    /\ pc = "returned" /\ lastOp = "_encode_iccid"
    /\ PureCall("_decode_iccid", _decode_iccid(result.bytes))

EncodePlmn ==
    /\ pc = "idle" /\ args.kind = "digits"
    /\ PureCall("_encode_plmn", _encode_plmn(args.s))

GetAccessTechnologyFlags ==
    /\ pc = "idle" /\ args.kind = "algos"
    /\ PureCall("_get_access_technology_flags",
                Bytes(_get_access_technology_flags(args.cd)))

EncInit ==
    /\ card = NoCard
    /\ card_type = "UNKNOWN"
    /\ authenticated = FALSE
    /\ atr = NoAtr
    /\ locked = FALSE
    /\ pc = "idle"
    /\ lastOp = "none"
    /\ pre = EmptySession
    /\ calls = <<>>
    /\ result = NoResult
    /\ GuiInit /\ card_count = 0
    /\ \/ \E s \in DigitInputs : args = [kind |-> "digits", s |-> s]
       \/ \E cd \in AlgoMaps : args = [kind |-> "algos", cd |-> cd]

EncNext ==
    \/ EncodeImsi
    \/ DecodeImsi
    \/ EncodeIccid
    \/ DecodeIccid
    \/ EncodePlmn
    \/ GetAccessTechnologyFlags

EncSpec == EncInit /\ [][EncNext]_vars

\* ------------------------------------------------------- card detection
\* 20 bytes of 0xFF
AllFF == [i \in 1 .. 20 |-> 255]

Patterns == {SJA2_ATR_PREFIX, SJA5_ATR_9FV, SJA5_ATR_SLM17, SJA5_ATR_3FJ,
             SJS1_ATR, AllFF}

\* the bytes a card sends after the part the patterns cover
Tails == {<<>>, <<2, 89, 196>>}

\* q with byte i replaced by b (i = 0: q itself)
Alter(q, i, b) == IF i = 0 THEN q ELSE [q EXCEPT ![i] = b]

\* ATRs given to the detector: every prefix of a pattern, with at most one
\* byte changed (to the byte that tells SJA2 from the others, or to 0xFF),
\* followed by a tail
AtrInputs ==
    UNION {UNION {{Alter(SubSeq(p, 1, k), i, b) \o t :
                      i \in 0 .. k, b \in {76, 53, 255}, t \in Tails} :
                  k \in 0 .. Len(p)} : p \in Patterns}

DetectCardType ==
    /\ pc = "idle" /\ args.kind = "atr" /\ args.atr.some
    /\ pc' = "returned"
    /\ lastOp' = "detect_card_type"
    /\ result' = [type |-> detect_card_type(args.atr.bytes)]
    /\ UNCHANGED <<card, card_type, authenticated, atr, locked, pre, args, calls, guiVars>>

CreateCardObject ==
    /\ pc = "idle" /\ args.kind = "atr"
    /\ LET co == create_card_object(args.atr, args.ctorOk, Built)
       IN  /\ result' = [type |-> co[1], card |-> co[2]]
           /\ calls' = co[3]
    /\ pc' = "returned"
    /\ lastOp' = "create_card_object"
    /\ UNCHANGED <<card, card_type, authenticated, atr, locked, pre, args, guiVars>>

DetInit ==
    /\ card = NoCard
    /\ card_type = "UNKNOWN"
    /\ authenticated = FALSE
    /\ atr = NoAtr
    /\ locked = FALSE
    /\ pc = "idle"
    /\ lastOp = "none"
    /\ pre = EmptySession
    /\ calls = <<>>
    /\ result = NoResult
    /\ GuiInit /\ card_count = 0
    /\ \E a \in {AtrNone} \cup {Atr(b) : b \in AtrInputs}, ctorOk \in SUBSET Families :
          args = [kind |-> "atr", atr |-> a, ctorOk |-> ctorOk]

DetNext ==
    \/ DetectCardType
    \/ CreateCardObject

DetSpec == DetInit /\ [][DetNext]_vars

\* ------------------------------------------------------------- batch loop
\* SysmoUSIMToolGUI of gui_main.py.  A handler runs to its end on the main
\* thread; between two handlers the event loop is idle (pc = "idle"), the
\* user can press Start (button or menu) or Stop, and a callback scheduled
\* with root.after can fire.  The outcomes of one handler are the set of
\* records [g, s, calls, result]: the window state and the session it leaves,
\* the CardManager calls it made in order, and how it ended.

\* a CSV row: the fields program_card and verify_card look at (an IMSI that
\* encodes or one that does not), and whether its ADM1 column is filled
BatchRows ==
    [cd : {cd \in CardDataSet : /\ cd["IMSI"] \in {"ok", "bad"}
                                 /\ \A f \in Fields \ {"IMSI"} : cd[f] = "absent"},
     ADM1 : BOOLEAN]

\* the row as the expected map of verify_card
Expected(cd) ==
    [IMSI |-> IF cd["IMSI"] = "ok" THEN "a" ELSE "b", ICCID |-> "absent"]

\* what the driver can answer to the detection of one pass
BatchDetectInputs ==
    {<<{}, TRUE, TRUE>>, <<{}, FALSE, TRUE>>, <<{"SJS1"}, FALSE, TRUE>>,
     <<Families, FALSE, TRUE>>, <<Families, FALSE, FALSE>>}

\* what the driver can answer to the authentication of one pass
BatchAuthInputs ==
    {<<TRUE, "true", MaxRetry>>, <<FALSE, "true", MaxRetry>>,
     <<FALSE, "raise", MaxRetry>>}
      \cup {<<FALSE, "false", n>> : n \in -1 .. MaxRetry}

\* what the card can hold and show at the read-back of one pass
BatchReadSet == {rd \in ReadSet : rd.iccid = "a"}

BatchReadFaults(s) == {F \in ReadFaultSets(s) : F \subseteq {"get_imsi"}}

\* one CardManager call made by a handler of the window
Call(op, r) == [op |-> op, ok |-> r.result.ok, kind |-> r.result.kind]

Out(g, s, tr, kind) ==
    [g |-> g, s |-> s, calls |-> tr, result |-> Res(kind = "success", kind)]

\* self.root.after(100, self._program_next_card)
Schedule(g) == [g EXCEPT !.after = @ + 1]

\* if self.programming_in_progress: self.root.after(...)
ScheduleIfInProgress(g) == IF g.programming_in_progress THEN Schedule(g) ELSE g

\* askretrycancel after a failed detection or authentication: Retry schedules
\* the same row again, Cancel counts the row as skipped and moves on
RetryOrSkip(g, s, tr) ==
    { Out(Schedule(g), s, tr, "retry"),
      Out(ScheduleIfInProgress([g EXCEPT !.batch_skipped_count = @ + 1,
                                         !.current_card_index = @ + 1]),
          s, tr, "skipped") }

_finish_batch(g) == [g EXCEPT !.running = FALSE]

_stop_batch(g) == [g EXCEPT !.programming_in_progress = FALSE, !.running = FALSE]

\* _program_next_card from "# Verify" on (_refresh_card_status reads the card
\* once more and changes nothing)
_program_next_card_verify(g, s, tr, row) ==
    { LET v == verify_card(s, Expected(row.cd), rd, faults)
          g1 == IF v.result.ok
                THEN [g EXCEPT !.batch_success_count = @ + 1]
                ELSE [g EXCEPT !.batch_failed_count = @ + 1]
      IN  Out(ScheduleIfInProgress([g1 EXCEPT !.current_card_index = @ + 1]),
              v.s, Append(tr, Call("verify_card", v)),
              IF v.result.ok THEN "success" ELSE "verify_failed")
      : rd \in BatchReadSet, faults \in BatchReadFaults(s) }

\* _program_next_card from "# Program card" on
_program_next_card_program(g, s, tr, row) ==
    UNION { LET p == program_card(s, row.cd, faults)
                tr2 == Append(tr, Call("program_card", p))
                gf == [g EXCEPT !.batch_failed_count = @ + 1]
            IN  IF ~p.result.ok
                THEN { Out(Schedule(gf), p.s, tr2, "retry"),
                       Out(ScheduleIfInProgress([gf EXCEPT !.current_card_index = @ + 1]),
                           p.s, tr2, "failed") }
                ELSE _program_next_card_verify(g, p.s, tr2, row)
            : faults \in FaultSets(s, row.cd) }

_program_next_card_authenticate_ignores_failure(g, s, tr, row) ==
    UNION { LET a == authenticate(s, i[1], i[2], i[3])
            IN  _program_next_card_program(g, a.s, Append(tr, Call("authenticate", a)), row)
            : i \in BatchAuthInputs }

\* _program_next_card from "# Authenticate" on: the key comes from the row or,
\* when the row has none, from the ADM1 dialog, which the user can cancel
_program_next_card_authenticate(g, s, tr, row) ==
    (IF row.ADM1 THEN {} ELSE RetryOrSkip(g, s, tr))
      \cup
    UNION { LET a == authenticate(s, i[1], i[2], i[3])
                tr2 == Append(tr, Call("authenticate", a))
            IN  IF ~a.result.ok
                THEN RetryOrSkip(g, a.s, tr2)
                ELSE _program_next_card_program(g, a.s, tr2, row)
            : i \in BatchAuthInputs }

\* SysmoUSIMToolGUI._program_next_card
_program_next_card(g, s) ==
    IF g.current_card_index >= card_count
    THEN { Out(_finish_batch(g), s, <<>>, "finished") }
    ELSE UNION { LET d == detect_card(s, i[1], i[2], i[3], Built)
                     tr == << Call("detect_card", d) >>
                 IN  IF ~d.result.ok
                     THEN RetryOrSkip(g, d.s, tr)
                     ELSE _program_next_card_authenticate(g, d.s, tr, row)
                 : i \in BatchDetectInputs, row \in BatchRows }

\* SysmoUSIMToolGUI._start_batch; errors: validate_all found errors,
\* continueAnyway: the answer to "Continue anyway?"
_start_batch(g, s, errors, continueAnyway) ==
    IF card_count = 0
    THEN { Out(g, s, <<>>, "no_cards") }
    ELSE IF errors /\ ~continueAnyway
    THEN { Out(g, s, <<>>, "declined") }
    ELSE _program_next_card([g EXCEPT !.running = TRUE,
                                      !.programming_in_progress = TRUE,
                                      !.current_card_index = 0,
                                      !.batch_success_count = 0,
                                      !.batch_failed_count = 0,
                                      !.batch_skipped_count = 0], s)

\* a handler of the window has run: o is its outcome, g0 the window state it
\* was entered with
ApplyGui(op, o, g0) ==
    /\ card' = o.s.card
    /\ card_type' = o.s.card_type
    /\ authenticated' = o.s.authenticated
    /\ atr' = o.s.atr
    /\ locked' = IF \E k \in 1 .. Len(o.calls) : o.calls[k].kind = "Locked" THEN TRUE
                 ELSE IF o.calls = <<>> THEN locked ELSE FALSE
    /\ programming_in_progress' = o.g.programming_in_progress
    /\ current_card_index' = o.g.current_card_index
    /\ batch_success_count' = o.g.batch_success_count
    /\ batch_failed_count' = o.g.batch_failed_count
    /\ batch_skipped_count' = o.g.batch_skipped_count
    /\ running' = o.g.running
    /\ after' = o.g.after
    /\ UNCHANGED card_count
    /\ pc' = "returned"
    /\ lastOp' = op
    /\ pre' = session
    /\ args' = [kind |-> "gui", g |-> g0]
    /\ calls' = o.calls
    /\ result' = o.result

\* Start Batch (button or Batch menu)
StartBatch ==
    /\ pc = "idle"
    /\ after < MaxAfter
    /\ \E errors \in BOOLEAN, continueAnyway \in BOOLEAN :
         \E o \in _start_batch(gui, session, errors, continueAnyway) :
            ApplyGui("_start_batch", o, gui)

\* a callback scheduled with root.after fires
ProgramNextCard ==
    /\ pc = "idle"
    /\ after > 0
    /\ batch_failed_count < MaxFailed
    /\ \E o \in _program_next_card([gui EXCEPT !.after = @ - 1], session) :
          ApplyGui("_program_next_card", o, gui)

\* Stop (enabled while the progress panel shows a running batch)
StopBatch ==
    /\ pc = "idle"
    /\ running
    /\ ApplyGui("_stop_batch", Out(_stop_batch(gui), session, <<>>, "stopped"), gui)

BatchInit ==
    /\ card = NoCard
    /\ card_type = "UNKNOWN"
    /\ authenticated = FALSE
    /\ atr = NoAtr
    /\ locked = FALSE
    /\ pc = "idle"
    /\ lastOp = "none"
    /\ pre = EmptySession
    /\ args = NoArgs
    /\ calls = <<>>
    /\ result = NoResult
    /\ GuiInit
    /\ card_count \in 0 .. MaxRows

BatchNext ==
    \/ StartBatch
    \/ ProgramNextCard
    \/ StopBatch
    \/ Return

BatchSpec == BatchInit /\ [][BatchNext]_vars

\* ------------------------------------------------------------- properties
Returned(op) == pc = "returned" /\ lastOp = op

\* program_card ran its plan (the session was authenticated on entry)
Programmed == Returned("program_card") /\ pre.authenticated

\* position of a call site, or of an exception, in the plan of spec section 4.5
StepOf(x) ==
    CASE x \in {"write_imsi", "encode:IMSI"} -> 1
      [] x \in {"write_iccid", "encode:ICCID"} -> 2
      [] x \in {"write_key_params", "encode:Ki"} -> 3
      [] x \in {"write_opc_params", "encode:OPc"} -> 4
      [] x \in {"write_auth_params/2", "write_auth_params/3",
                "TypeError:write_auth_params"} -> 5
      [] x \in {"write_mnclen", "encode:MNC_LENGTH"} -> 6
      [] x = "write_milenage_params" -> 7
      [] x = "write_tuak_cfg" -> 8
      [] x \in {"PLMNsel:select_DF_GSM", "PLMNsel:select_EF", "PLMNsel:update_binary",
                "HPLMNwAcT:select_DF_GSM", "HPLMNwAcT:select_EF",
                "HPLMNwAcT:update_binary", "PLMN:select_ADF_USIM"} -> 9
      [] x \in {"SUCI:select_ADF_USIM", "SUCI:select_DF_5GS",
                "SUCI_Calc_Info:select_EF", "SUCI_Calc_Info:update_binary",
                "Routing_Indicator:select_EF", "Routing_Indicator:update_binary",
                "UST:select_ADF_USIM", "UST:select_EF", "UST:read_binary",
                "UST:update_binary"} -> 10
      [] x \in {"OPLMNwAcT:select_DF_GSM", "OPLMNwAcT:select_EF",
                "OPLMNwAcT:update_binary"} -> 11
      [] OTHER -> 0

MandatorySites == {"write_imsi", "write_key_params", "write_opc_params",
                   "write_auth_params/2", "write_auth_params/3", "write_mnclen"}

MandatoryFields == {"IMSI", "Ki", "OPc", "MNC_LENGTH"}

SuciSites == {"SUCI:select_ADF_USIM", "SUCI:select_DF_5GS",
              "SUCI_Calc_Info:select_EF", "SUCI_Calc_Info:update_binary",
              "Routing_Indicator:select_EF", "Routing_Indicator:update_binary",
              "UST:select_ADF_USIM", "UST:select_EF", "UST:read_binary",
              "UST:update_binary"}

\* some mandatory step of the call fails: a mandatory value does not encode,
\* a mandatory driver write raises, or the driver rejects the algorithm write
MandatoryFailure(cd, faults, fam) ==
    \/ \E f \in MandatoryFields : cd[f] = "bad"
    \/ faults \cap MandatorySites # {}
    \/ (NonEmpty(cd, "ALGO_4G5G") /\ ~Accepts4g5g(fam))

\* C1: after detect_card returns, whatever the session was before and whether
\* the detection succeeded, found no card or raised, authenticated is false
\* and card, card_type and atr are those of the newly built driver object or
\* empty; nothing of the previous card is left.
C1_DetectLeavesNothingStale ==
    Returned("detect_card") =>
        /\ ~authenticated
        /\ \/ card = NoCard /\ card_type = "UNKNOWN" /\ atr = NoAtr
           \/ /\ card # NoCard
              /\ card.id = Built
              /\ card.id # pre.card.id
              /\ card_type = card.family
              /\ atr \in {NoAtr, card.id}
        /\ (atr # NoAtr => atr # pre.atr)

C1_Witness ==
    /\ Returned("detect_card")
    /\ pre.authenticated /\ pre.card # NoCard /\ pre.atr # NoAtr
    /\ card # NoCard /\ atr = NoAtr

\* C2: authenticate without a detected card answers "No card", and
\* program_card, verify_card and read_card_data on an unauthenticated session
\* fail at once; none of them issues a driver call.
C2_GatesIssueNoDriverCall ==
    /\ (Returned("authenticate") /\ pre.card = NoCard) =>
          (calls = <<>> /\ ~result.ok /\ result.kind = "NoCard" /\ session = pre)
    /\ (Returned("program_card") /\ ~pre.authenticated) =>
          (calls = <<>> /\ ~result.ok /\ result.kind = "NotAuthenticated")
    /\ (Returned("verify_card") /\ ~pre.authenticated) =>
          (calls = <<>> /\ ~result.ok /\ result.mismatches = <<"Not authenticated">>)
    /\ (Returned("read_card_data") /\ ~pre.authenticated) =>
          (calls = <<>> /\ ~result.ok /\ result.data = NoData)

C2_Witness ==
    /\ Returned("program_card")
    /\ ~pre.authenticated /\ pre.card # NoCard
    /\ args.cd["IMSI"] = "ok"

\* C3: on a detected card authenticate classifies the driver's answer:
\* admin_auth true is Success and sets authenticated; admin_auth false with
\* retry counter 0 is Locked; with n > 0 it is Failed reporting n; with a
\* failing retry query it is a generic failure without a count; a raising
\* driver or key conversion is returned as an error, never raised.
C3_AuthenticateClassifies ==
    (Returned("authenticate") /\ pre.card # NoCard) =>
        IF args.adm1Bad \/ args.auth = "raise"
        THEN ~result.ok /\ result.kind = "Error" /\ authenticated = pre.authenticated
        ELSE IF args.auth = "true"
        THEN result.ok /\ result.kind = "Success" /\ authenticated
        ELSE /\ ~result.ok
             /\ authenticated = pre.authenticated
             /\ (args.retrys = 0 => result.kind = "Locked")
             /\ (args.retrys > 0 =>
                   result.kind = "Failed" /\ result.remaining = args.retrys)
             /\ (args.retrys = -1 =>
                   result.kind = "GenericFailure" /\ result.remaining = -1)

C3_Witness ==
    /\ Returned("authenticate")
    /\ pre.card # NoCard /\ args.auth = "false" /\ args.retrys = 0
    /\ result.kind = "Locked"

\* C4: once authenticate has answered Locked, no later authenticate on the
\* same session issues admin_auth, and the session does not become
\* authenticated.
C4_LockedIsTerminal ==
    [][(locked /\ pc' = "returned" /\ lastOp' = "authenticate") =>
          (\A i \in 1 .. Len(calls') : calls'[i] # "admin_auth")
          /\ (authenticated' => authenticated)]_vars

\* C5: when encoding or writing a mandatory-if-present field fails,
\* program_card returns failure carrying that error and issues no driver
\* call of a later step (a mandatory value that does not encode fails the
\* call with its own error unless an earlier step has already aborted it).
C5_MandatoryFailureAborts ==
    Programmed =>
        /\ \A i \in 1 .. Len(calls) :
              (calls[i] \in MandatorySites \cap args.faults) =>
                  (i = Len(calls) /\ ~result.ok /\ result.err = calls[i])
        /\ \A f \in MandatoryFields :
              args.cd[f] = "bad" =>
                  /\ ~result.ok
                  /\ \/ result.err = "encode:" \o f
                     \/ /\ result.err # ""
                        /\ StepOf(result.err) < StepOf("encode:" \o f)
                  /\ \A i \in 1 .. Len(calls) : StepOf(calls[i]) < StepOf("encode:" \o f)
        /\ (~result.ok =>
              \A i \in 1 .. Len(calls) : StepOf(calls[i]) <= StepOf(result.err))

C5_Witness ==
    /\ Programmed
    /\ "write_key_params" \in args.faults
    /\ NonEmpty(args.cd, "MNC_LENGTH")
    /\ calls = <<"write_key_params">>
    /\ result.err = "write_key_params"

\* C6: program_card issues a driver write for a field's EF only if that field
\* is in the field map with a non-empty value; a field map holding only IMSI
\* gives exactly one driver write, write_imsi, and success.
C6_AbsentFieldNotWritten ==
    Programmed =>
        /\ \A i \in 1 .. Len(calls) :
              /\ (calls[i] = "write_imsi" => NonEmpty(args.cd, "IMSI"))
              /\ (calls[i] = "write_iccid" => NonEmpty(args.cd, "ICCID"))
              /\ (calls[i] = "write_key_params" => NonEmpty(args.cd, "Ki"))
              /\ (calls[i] = "write_opc_params" => NonEmpty(args.cd, "OPc"))
              /\ (calls[i] \in {"write_auth_params/2", "write_auth_params/3"} =>
                    \E f \in {"ALGO_2G", "ALGO_3G", "ALGO_4G5G"} : NonEmpty(args.cd, f))
              /\ (calls[i] = "write_mnclen" => NonEmpty(args.cd, "MNC_LENGTH"))
              /\ (calls[i] = "write_milenage_params" => NonEmpty(args.cd, "MILENAGE_R1"))
              /\ (calls[i] = "write_tuak_cfg" => NonEmpty(args.cd, "TUAK_RES_SIZE"))
              /\ (StepOf(calls[i]) = 9 => NonEmpty(args.cd, "HPLMN"))
              /\ (calls[i] = "Routing_Indicator:update_binary" =>
                    NonEmpty(args.cd, "ROUTING_INDICATOR"))
              /\ (calls[i] \in {"SUCI_Calc_Info:update_binary", "UST:update_binary"} =>
                    NonEmpty(args.cd, "HNET_PUBKEY"))
              /\ (StepOf(calls[i]) = 11 => NonEmpty(args.cd, "OPLMN_ACT"))
        /\ ((\A f \in Fields : In(args.cd, f) <=> f = "IMSI")
               /\ args.cd["IMSI"] = "ok" /\ args.faults = {}) =>
              (calls = <<"write_imsi">> /\ result.ok)

\* C7: the 3-argument write_auth_params call is issued only when ALGO_4G5G is
\* specified and the driver accepts the third argument; a driver that does
\* not accept a 4G/5G algorithm gets the 2-argument call.
C7_ThreeArgOnlyIfSupported ==
    Programmed =>
        \A i \in 1 .. Len(calls) :
            calls[i] = "write_auth_params/3" =>
                (NonEmpty(args.cd, "ALGO_4G5G") /\ Accepts4g5g(pre.card.family))

\* C8: a failure while encoding or writing an optional field never aborts
\* program_card: if every mandatory step succeeds the call returns success
\* and the steps after the failing optional field are still attempted.
C8_OptionalFailureNeverAborts ==
    (Programmed /\ ~MandatoryFailure(args.cd, args.faults, pre.card.family)) =>
        /\ result.ok
        /\ \E i \in 1 .. Len(calls) :
              calls[i] \in {"write_auth_params/2", "write_auth_params/3"}
        /\ (NonEmpty(args.cd, "OPLMN_ACT") =>
              \E i \in 1 .. Len(calls) : calls[i] = "OPLMNwAcT:select_DF_GSM")

\* C9: when the driver's write_iccid raises, the ICCID error is not what
\* program_card returns: the call goes on with the steps after the ICCID and
\* returns success unless a mandatory step fails.
C9_IccidWriteFailureSkipped ==
    (Programmed /\ \E i \in 1 .. Len(calls) :
                      calls[i] = "write_iccid" /\ "write_iccid" \in args.faults) =>
        /\ result.err # "write_iccid"
        /\ (~MandatoryFailure(args.cd, args.faults, pre.card.family) =>
              /\ result.ok
              /\ calls[Len(calls)] # "write_iccid"
              /\ (NonEmpty(args.cd, "Ki") =>
                    \E i \in 1 .. Len(calls) : calls[i] = "write_key_params"))

C9_Witness ==
    /\ Programmed
    /\ "write_iccid" \in args.faults
    /\ calls = <<"write_iccid", "write_key_params", "write_auth_params/2">>
    /\ result.ok

\* C10: the TUAK configuration write and the 5G SUCI accesses are issued only
\* on a session whose card type is SJA5, and the 5G SUCI accesses only when
\* HNET_PUBKEY is in the field map with a non-empty value.
C10_FamilyBOnlySteps ==
    Programmed =>
        \A i \in 1 .. Len(calls) :
            /\ (calls[i] = "write_tuak_cfg" => pre.card_type = "SJA5")
            /\ (calls[i] \in SuciSites =>
                  (pre.card_type = "SJA5" /\ NonEmpty(args.cd, "HNET_PUBKEY")))

C10_Witness ==
    /\ Programmed
    /\ pre.card_type = "SJA2"
    /\ In(args.cd, "TUAK_RES_SIZE") /\ NonEmpty(args.cd, "HNET_PUBKEY")
    /\ result.ok
    /\ calls = <<"write_auth_params/2">>

\* C11: verify_card on an authenticated session reports a mismatch for IMSI
\* (ICCID) exactly when expected contains the field, the driver's read of it
\* returned a non-empty value, and the two differ; a field absent from
\* expected is never reported; the returned boolean is true exactly when the
\* mismatch list is empty.
C11_VerifyReportsExactly ==
    (Returned("verify_card") /\ pre.authenticated) =>
        LET mI == /\ args.expected.IMSI # "absent"
                  /\ "get_imsi" \notin args.faults /\ args.rd.imsi # ""
                  /\ args.rd.imsi # args.expected.IMSI
            mC == /\ args.expected.ICCID # "absent"
                  /\ "get_ICCID" \notin args.faults /\ args.rd.iccid # ""
                  /\ args.rd.iccid # args.expected.ICCID
        IN  /\ result.mismatches = (IF mI THEN <<"IMSI">> ELSE <<>>)
                                      \o (IF mC THEN <<"ICCID">> ELSE <<>>)
            /\ result.ok <=> (result.mismatches = <<>>)

C11_Witness ==
    /\ Returned("verify_card") /\ pre.authenticated
    /\ args.expected = [IMSI |-> "a", ICCID |-> "a"]
    /\ args.rd = [imsi |-> "b", iccid |-> "a"]
    /\ args.faults = {}
    /\ result.mismatches = <<"IMSI">> /\ ~result.ok

\* the pure function op has just returned
Called(op) == pc = "returned" /\ lastOp = op

\* C16: the IMSI encoder's output is a length byte equal to the digit count
\* followed by the nibble-swapped BCD digits (byte = d1<<4 | d0, final high
\* nibble 0xF when the digit count is odd); for 15 digits it has 9 bytes and
\* its first byte is 15.
C16_ImsiLengthPrefixedBcd ==
    Called("_encode_imsi") =>
        LET d == args.s
            n == Len(d)
            bcd == [i \in 1 .. ((n + 1) \div 2) |->
                       (IF 2 * i <= n THEN d[2 * i] ELSE 15) * 16 + d[2 * i - 1]]
        IN  /\ result.bytes = <<n>> \o bcd
            /\ (n = 15 => Len(result.bytes) = 9 /\ result.bytes[1] = 15)

\* C17: decoding the encoded IMSI gives back the IMSI, for every digit string.
C17_ImsiRoundTrip ==
    Called("_decode_imsi") => result = Str(args.s)

\* C18: decoding the encoded ICCID gives back the ICCID, for every digit
\* string; the encoder emits ceil(len/2) bytes without a length prefix, the
\* digits in order, an odd-length input followed by one 0xF nibble.
C18_IccidRoundTrip ==
    /\ Called("_encode_iccid") =>
          /\ ~result.raised
          /\ Len(result.bytes) = (Len(args.s) + 1) \div 2
          /\ HexStr(result.bytes) =
                 IF Len(args.s) % 2 = 1 THEN Append(args.s, 15) ELSE args.s
    /\ Called("_decode_iccid") => result = Str(args.s)

C18_Witness ==
    /\ Called("_decode_iccid")
    /\ args.s = <<8,9,4,9,4,4,0,0,0,0,0,0,1,6,7,2,7,0,6>>
    /\ result = Str(args.s)

\* C19: _encode_plmn yields exactly 3 bytes in the fixed nibble layout
\* [m1 m0] [F m2] [n1 n0] for 5 digits m0 m1 m2 n0 n1 and [m1 m0] [n2 m2]
\* [n1 n0] for 6 digits m0 m1 m2 n0 n1 n2; any other length raises.
C19_PlmnLayout ==
    Called("_encode_plmn") =>
        LET d == args.s
            b == result.bytes
            hi(x) == x \div 16
            lo(x) == x % 16
        IN  IF Len(d) \in {5, 6}
            THEN /\ ~result.raised
                 /\ Len(b) = 3
                 /\ lo(b[1]) = d[1] /\ hi(b[1]) = d[2]
                 /\ lo(b[2]) = d[3]
                 /\ hi(b[2]) = (IF Len(d) = 5 THEN 15 ELSE d[6])
                 /\ lo(b[3]) = d[4] /\ hi(b[3]) = d[5]
            ELSE result.raised

C19_Witness ==
    /\ Called("_encode_plmn")
    /\ Len(args.s) = 7
    /\ result.raised

Leads(a, p, k) == Len(a) >= k /\ \A i \in 1 .. k : a[i] = p[i]

\* C13: detect_card_type answers with the first pattern that matches, tried
\* in the order SJA5 variants (19 bytes), SJS1 (19 bytes), SJA2 (16 bytes):
\* an ATR that starts with an SJA5 variant is SJA5 whatever follows; an empty
\* ATR, an ATR shorter than 16 bytes or than the pattern, and an ATR matching
\* no pattern (20 bytes of 0xFF) are UNKNOWN.
C13_FirstMatchInOrder ==
    Called("detect_card_type") =>
        LET a == args.atr.bytes
            isB == \E p \in {SJA5_ATR_9FV, SJA5_ATR_SLM17, SJA5_ATR_3FJ} : Leads(a, p, 19)
            isC == Leads(a, SJS1_ATR, 19)
            isA == Leads(a, SJA2_ATR_PREFIX, 16)
        IN  /\ result.type = (IF isB THEN "SJA5" ELSE IF isC THEN "SJS1"
                              ELSE IF isA THEN "SJA2" ELSE "UNKNOWN")
            /\ (Len(a) < 16 => result.type = "UNKNOWN")
            /\ (a = AllFF => result.type = "UNKNOWN")
            /\ \A p \in {SJA5_ATR_9FV, SJA5_ATR_SLM17, SJA5_ATR_3FJ, SJS1_ATR} :
                  (Len(a) < 19 /\ Leads(a, p, Len(a))) => result.type = "UNKNOWN"

C13_Witness ==
    /\ Called("detect_card_type")
    /\ args.atr.bytes = SJA5_ATR_9FV \o <<2, 89, 196>>
    /\ result.type = "SJA5"

\* C14: without an ATR create_card_object calls the driver constructors in
\* the order in which detect_card_type tries its patterns: SJA5, SJS1, SJA2.
C14_ProbeOrderIsMatcherOrder ==
    (Called("create_card_object") /\ ~args.atr.some) =>
        \E k \in 0 .. 3 : calls = SubSeq(<<"SJA5", "SJS1", "SJA2">>, 1, k)

\* C15: create_card_object returns a pair whose card type is UNKNOWN exactly
\* when the driver handle is None; a probe whose constructor raises is
\* skipped and the next family tried; it returns (UNKNOWN, None) when every
\* probe fails, when the supplied ATR resolves to UNKNOWN (no constructor is
\* called then) and when the constructor for a supplied ATR raises.
C15_NoHalfBuiltResult ==
    Called("create_card_object") =>
        LET t == detect_card_type(args.atr.bytes)
            none == result.type = "UNKNOWN" /\ result.card = NoCard
        IN  /\ result.type = "UNKNOWN" <=> result.card = NoCard
            /\ (result.card # NoCard =>
                  /\ result.card.family = result.type
                  /\ result.type \in args.ctorOk
                  /\ calls[Len(calls)] = result.type)
            /\ \A i \in 1 .. Len(calls) - 1 : calls[i] \notin args.ctorOk
            /\ (~args.atr.some =>
                  /\ (args.ctorOk = {} <=> none)
                  /\ (none => Range(calls) = Families))
            /\ (args.atr.some =>
                  /\ (t = "UNKNOWN" => none /\ calls = <<>>)
                  /\ (t # "UNKNOWN" => calls = <<t>>)
                  /\ (t \notin args.ctorOk => none))

C15_Witness ==
    /\ Called("create_card_object")
    /\ args.atr = Atr(SJS1_ATR)
    /\ args.ctorOk = {"SJA5", "SJA2"}
    /\ calls = <<"SJS1">>
    /\ result.type = "UNKNOWN" /\ result.card = NoCard

PlanOrder == <<
    "write_imsi", "write_iccid", "write_key_params", "write_opc_params",
    "write_auth_params/3", "write_auth_params/2", "write_mnclen",
    "write_milenage_params", "write_tuak_cfg",
    "PLMNsel:select_DF_GSM", "PLMNsel:select_EF", "PLMNsel:update_binary",
    "HPLMNwAcT:select_DF_GSM", "HPLMNwAcT:select_EF", "HPLMNwAcT:update_binary",
    "PLMN:select_ADF_USIM",
    "SUCI:select_ADF_USIM", "SUCI:select_DF_5GS",
    "SUCI_Calc_Info:select_EF", "SUCI_Calc_Info:update_binary",
    "Routing_Indicator:select_EF", "Routing_Indicator:update_binary",
    "UST:select_ADF_USIM", "UST:select_EF", "UST:read_binary", "UST:update_binary",
    "OPLMNwAcT:select_DF_GSM", "OPLMNwAcT:select_EF", "OPLMNwAcT:update_binary" >>

\* the position of a driver access in the plan
PlanRank ==
    [x \in {PlanOrder[i] : i \in 1 .. Len(PlanOrder)} |->
        CHOOSE i \in 1 .. Len(PlanOrder) : PlanOrder[i] = x]

\* number of times the driver call x was issued
Count(x) == Cardinality({i \in 1 .. Len(calls) : calls[i] = x})

\* C22: in every execution of program_card the driver accesses follow the
\* plan order IMSI, ICCID, Ki, OPc, algorithms, MNC length, Milenage, TUAK,
\* PLMN (PLMNsel before HPLMNwAcT), 5G SUCI (SUCI_Calc_Info, Routing_Indicator,
\* UST), OPLMN: the accesses issued are a subsequence of that order, whichever
\* fields are present and whichever steps fail.
C22_PlanOrder ==
    Returned("program_card") =>
        /\ \A i \in 1 .. Len(calls) : calls[i] \in DOMAIN PlanRank
        /\ \A i \in 1 .. Len(calls) - 1 : PlanRank[calls[i]] < PlanRank[calls[i + 1]]

C22_Witness ==
    /\ Programmed
    /\ args.faults = {"PLMNsel:select_EF"}
    /\ NonEmpty(args.cd, "IMSI")
    /\ calls[1] = "write_imsi"
    /\ calls[Len(calls)] = "HPLMNwAcT:update_binary"

\* C23: the core does not retry: one authenticate issues at most one
\* admin_auth (exactly one when a card is present and the key converts) and
\* at most one retry-counter query, asked only after admin_auth answered
\* false; one program_card issues each driver access of its plan at most
\* once, a failed one included.
C23_NoRetry ==
    /\ Returned("authenticate") =>
          /\ Count("admin_auth") <= 1
          /\ Count("chv_retrys") <= 1
          /\ Len(calls) = Count("admin_auth") + Count("chv_retrys")
          /\ ((pre.card # NoCard /\ ~args.adm1Bad) => Count("admin_auth") = 1)
          /\ (Count("chv_retrys") = 1 => args.auth = "false" /\ calls[1] = "admin_auth")
    /\ Returned("program_card") =>
          /\ Cardinality(Range(calls)) = Len(calls)
          /\ \A x \in args.faults : Count(x) <= 1

C23_Witness ==
    /\ Returned("authenticate")
    /\ args.auth = "false" /\ args.retrys = 2
    /\ calls = <<"admin_auth", "chv_retrys">>

\* C23 as stated: every call of authenticate issues exactly one admin_auth
\* and at most one retry-counter query, and program_card issues each driver
\* access at most once.
C23_ExactlyOneAdminAuth ==
    /\ Returned("authenticate") =>
          (Count("admin_auth") = 1 /\ Count("chv_retrys") <= 1)
    /\ Returned("program_card") =>
          Cardinality(Range(calls)) = Len(calls)

\* C24: inside the PLMN step and the 5G SUCI step every EF write has its own
\* guard: whatever fails while EF.PLMNsel is written, the EF.HPLMNwAcT write
\* is attempted; whatever fails in one of the SUCI sub-writes (SUCI_Calc_Info,
\* Routing_Indicator, UST), the other two are attempted; a sub-write none of
\* whose own accesses fails and whose value encodes is carried out.
C24_SubWritesGuarded ==
    Programmed =>
        LET issued == Range(calls)
            did(x) == x \in issued
            clean(S) == args.faults \cap S = {}
        IN  /\ did("PLMNsel:select_DF_GSM") =>
                  /\ did("HPLMNwAcT:select_DF_GSM")
                  /\ (clean({"HPLMNwAcT:select_DF_GSM", "HPLMNwAcT:select_EF"})
                        => did("HPLMNwAcT:update_binary"))
                  /\ (clean({"PLMNsel:select_DF_GSM", "PLMNsel:select_EF"})
                        => did("PLMNsel:update_binary"))
            /\ did("SUCI_Calc_Info:select_EF") =>
                  /\ did("Routing_Indicator:select_EF")
                  /\ did("UST:select_ADF_USIM")
                  /\ ((clean({"SUCI_Calc_Info:select_EF"}) /\ args.cd["HNET_PUBKEY"] = "ok")
                        => did("SUCI_Calc_Info:update_binary"))
                  /\ ((clean({"Routing_Indicator:select_EF"})
                       /\ args.cd["ROUTING_INDICATOR"] # "bad")
                        => did("Routing_Indicator:update_binary"))
                  /\ (clean({"UST:select_ADF_USIM", "UST:select_EF", "UST:read_binary",
                             "UST:short_read"})
                        => did("UST:update_binary"))
            /\ result.err \notin {"PLMNsel:select_DF_GSM", "PLMNsel:select_EF",
                                  "PLMNsel:update_binary", "HPLMNwAcT:select_DF_GSM",
                                  "HPLMNwAcT:select_EF", "HPLMNwAcT:update_binary"}
                                   \cup SuciSites

C24_Witness ==
    /\ Programmed
    /\ args.faults = {"SUCI_Calc_Info:update_binary"}
    /\ \E i \in 1 .. Len(calls) : calls[i] = "SUCI_Calc_Info:update_binary"
    /\ \E i \in 1 .. Len(calls) : calls[i] = "Routing_Indicator:update_binary"
    /\ calls[Len(calls)] = "UST:update_binary"
    /\ result.ok

\* C25: in every state of every sequence of operations card is None exactly
\* when card_type is UNKNOWN, and authenticated holds only while a card is
\* present.
C25_SessionInvariant ==
    /\ card = NoCard <=> card_type = "UNKNOWN"
    /\ card # NoCard => card.family = card_type
    /\ authenticated => (card # NoCard /\ card_type # "UNKNOWN")

C25_Witness ==
    /\ Returned("detect_card")
    /\ pre.authenticated /\ pre.card # NoCard
    /\ card = NoCard /\ card_type = "UNKNOWN" /\ ~authenticated

\* C26: only detect_card, disconnect and a successful authenticate change
\* the session: read_card_data, program_card, verify_card and a failed or
\* erroring authenticate leave card, card_type, authenticated and atr as they
\* were (a failed authenticate on an authenticated session leaves it
\* authenticated); a successful authenticate changes authenticated only.
C26_Frame ==
    /\ (Returned("read_card_data") \/ Returned("program_card") \/ Returned("verify_card"))
          => session = pre
    /\ Returned("authenticate") =>
          IF result.ok THEN session = [pre EXCEPT !.authenticated = TRUE]
          ELSE session = pre

C26_Witness ==
    /\ Returned("authenticate")
    /\ pre.authenticated /\ ~result.ok /\ result.kind = "Failed"
    /\ authenticated

\* C27: verify_card answers all_match = true only if every field among IMSI
\* and ICCID that is in expected was read back from the card and equals the
\* expected value.
C27_VerificationSound ==
    (Returned("verify_card") /\ pre.authenticated /\ result.ok) =>
        /\ args.expected.IMSI # "absent" =>
              ("get_imsi" \notin args.faults /\ args.rd.imsi = args.expected.IMSI)
        /\ args.expected.ICCID # "absent" =>
              ("get_ICCID" \notin args.faults /\ args.rd.iccid = args.expected.ICCID)

\* a pass of the batch loop has just ended: _program_next_card ran, called by
\* _start_batch or fired by root.after
PassEnded == pc = "returned" /\ lastOp \in {"_start_batch", "_program_next_card"}

\* C28: in a pass of the batch loop program_card is called only after
\* detect_card and then authenticate succeeded in the same pass, and
\* verify_card only after that program_card succeeded; every pass that calls
\* the manager starts with detect_card, so the card programmed is the one
\* detected in this pass and the authentication is the one of this pass, also
\* when the session was already authenticated when the pass began.
C28_ProgramAfterDetectAndAuthenticate ==
    PassEnded =>
        /\ calls # <<>> => calls[1].op = "detect_card"
        /\ \A i \in 1 .. Len(calls) :
              /\ calls[i].op = "program_card" =>
                    /\ \E j, k \in 1 .. Len(calls) :
                          /\ j < k /\ k < i
                          /\ calls[j].op = "detect_card" /\ calls[j].ok
                          /\ calls[k].op = "authenticate" /\ calls[k].ok
                    /\ calls[i].kind # "NotAuthenticated"
                    /\ card # NoCard /\ card.id = Built /\ authenticated
              /\ calls[i].op = "verify_card" =>
                    /\ i > 1
                    /\ calls[i - 1].op = "program_card" /\ calls[i - 1].ok
              /\ Cardinality({j \in 1 .. Len(calls) : calls[j].op = calls[i].op}) = 1

C28_Witness ==
    /\ PassEnded
    /\ pre.authenticated /\ pre.card # NoCard
    /\ Len(calls) = 4
    /\ calls[3].op = "program_card" /\ calls[3].ok
    /\ result.kind = "success"

\* C29: a pass of the batch loop that begins after the user has stopped the
\* batch (programming_in_progress is false when the callback fires) calls
\* neither detect_card nor authenticate nor program_card.
C29_StoppedBatchProcessesNoCard ==
    (Returned("_program_next_card") /\ ~args.g.programming_in_progress)
        => calls = <<>>

\* C30: when _finish_batch is reached batch_success_count + batch_failed_count
\* + batch_skipped_count equals the number of rows, and a pass leaves
\* current_card_index where it was or one row further.
C30_EveryRowCountedOnce ==
    /\ (PassEnded /\ result.kind = "finished") =>
          batch_success_count + batch_failed_count + batch_skipped_count = card_count
    /\ Returned("_program_next_card") =>
          current_card_index \in {args.g.current_card_index,
                                  args.g.current_card_index + 1}
    /\ (Returned("_start_batch") /\ result.kind \notin {"no_cards", "declined"}) =>
          current_card_index \in {0, 1}

====
